---- MODULE Spec2Model ----
(***************************************************************************)
(* Billing page of src/main.py (the "Billing" branch, lines 882-1199):     *)
(* the four loaded tables, the selection made in the widgets, and what     *)
(* one click on "View billing for selection" computes from them.           *)
(*                                                                         *)
(* Numbers.  Quantities are fixed-point litres and money is fixed-point    *)
(* rupees, both with four decimals (Unit == 1 L == 1 rupee); round(x, 2)   *)
(* is rounding to a multiple of Cent, round(x, 3) to a multiple of Milli.  *)
(* A pandas Timestamp is a number of ticks, TicksPerDay ticks to the day,  *)
(* so that a record can carry a time of day; NaT and NaN are what          *)
(* errors="coerce" leaves for a cell that does not parse.  A calendar date *)
(* (datetime.date) is a day number.  A date cell that is still the text    *)
(* read from the sheet is TextBase + 1 + the timestamp it parses to.       *)
(* A string is a sequence of one-character strings.                        *)
(***************************************************************************)
EXTENDS Integers, Sequences, FiniteSets, TLC

\* ---------------------------------------------------------------- bounds
\* days 0..MaxDay can be chosen as period bounds and appear in the tables
MaxDay == 2
\* rows of the payment table
MaxPayRows == 2
\* rows of a delivery table
MaxRows == 2
\* rows of the prior bills ledger
MaxBillRows == 2
\* weekday (Monday = 0) of day 0
WeekdayOfDay0 == 5
MaxNameLen == 4

\* ------------------------------------------------------- representation
TicksPerDay == 2
NaT == -1
NaN == -999999
Cent == 100
Milli == 10
Unit == Cent * Cent
TextBase == 1000
FIXED_RATE_PER_L == 60

Max(a, b) == IF a >= b THEN a ELSE b
Min(a, b) == IF a <= b THEN a ELSE b

RECURSIVE SumOver(_, _)
\* sum of f[i] over the finite set S of indices
SumOver(f, S) ==
    IF S = {} THEN 0
    ELSE LET i == CHOOSE x \in S : TRUE IN f[i] + SumOver(f, S \ {i})

SeqsUpTo(S, n) == UNION {[1..k -> S] : k \in 0..n}

\* ---------------------------------------------------------------- time
\* pd.Timestamp(date).normalize(): midnight of a day
Midnight(day) == day * TicksPerDay
\* Series.dt.normalize() / Timestamp.normalize(); NaT stays NaT
Normalize(ts) == IF ts = NaT THEN NaT ELSE ts - (ts % TicksPerDay)
\* Timestamp.date()
DateOf(ts) == ts \div TicksPerDay
\* comparisons with NaT are False
TsGe(a, b) == a # NaT /\ b # NaT /\ a >= b
TsLe(a, b) == a # NaT /\ b # NaT /\ a <= b
TsEq(a, b) == a # NaT /\ b # NaT /\ a = b
\* a date cell as read from the sheet: the text of a timestamp, or (of NaT)
\* a blank or a text that is no date
Text(ts) == TextBase + 1 + ts
\* pd.to_datetime(cell, errors="coerce"): parses a text, keeps a Timestamp
to_datetime(cell) == IF cell >= TextBase THEN cell - TextBase - 1 ELSE cell
\* date.weekday()
Weekday(day) == (day + WeekdayOfDay0) % 7

\* pd.date_range(start, end, freq="D"): the midnights from start to end
date_range_excl(start, end) ==
    [k \in 1..Max(0, DateOf(end) - DateOf(start)) |-> start + (k - 1) * TicksPerDay]
date_range(start, end) ==
    [k \in 1..Max(0, DateOf(end) - DateOf(start) + 1) |-> start + (k - 1) * TicksPerDay]

\* ------------------------------------------------------------- numbers
NumRaw(cell) == cell
\* pd.to_numeric(x, errors="coerce").fillna(0)
Num0(cell) == IF cell = NaN THEN 0 ELSE cell

\* round(x, n): to the nearest multiple of the granule g, half to even
RoundTo(x, g) ==
    LET q == x \div g
        r == x % g
    IN  IF 2 * r < g THEN q * g
        ELSE IF 2 * r > g THEN (q + 1) * g
        ELSE IF q % 2 = 0 THEN q * g ELSE (q + 1) * g
\* round(x, 2)
Round2(x) == RoundTo(x, Cent)
\* round(x, 3)
Round3(x) == RoundTo(x, Milli)

\* quantity (litres) times rate (whole rupees per litre), in money units
Times(qty, rate) == qty * rate

\* --------------------------------------------------------------- names
AllCustomers == <<"All customers">>
\* a missing cell of a name column (NaN)
NaName == <<"NaN">>

Lower(c) == CASE c = "A" -> "a" [] c = "B" -> "b" [] OTHER -> c
LowerStr(s) == [i \in 1..Len(s) |-> Lower(s[i])]

\* the characters str.strip() and str.split() treat as whitespace
IsSpace(c) == c \in {" ", "\t"}
RECURSIVE LStrip(_)
LStrip(s) == IF s # <<>> /\ IsSpace(Head(s)) THEN LStrip(Tail(s)) ELSE s
RECURSIVE RStrip(_)
RStrip(s) == IF s # <<>> /\ IsSpace(s[Len(s)]) THEN RStrip(SubSeq(s, 1, Len(s) - 1)) ELSE s
Strip(s) == RStrip(LStrip(s))

RECURSIVE SplitWords(_, _, _)
\* str.split(): the words of s between runs of whitespace
SplitWords(s, cur, acc) ==
    IF s = <<>> THEN (IF cur = <<>> THEN acc ELSE Append(acc, cur))
    ELSE IF IsSpace(Head(s))
         THEN SplitWords(Tail(s), <<>>, IF cur = <<>> THEN acc ELSE Append(acc, cur))
         ELSE SplitWords(Tail(s), Append(cur, Head(s)), acc)

RECURSIVE JoinSpace(_)
\* " ".join(words)
JoinSpace(ws) ==
    IF ws = <<>> THEN <<>>
    ELSE IF Len(ws) = 1 THEN ws[1]
    ELSE ws[1] \o <<" ">> \o JoinSpace(Tail(ws))

norm_name_trimmed(x) ==
    IF x = NaName THEN <<>> ELSE LowerStr(Strip(x))
norm_name(x) ==
    IF x = NaName THEN <<>>
    ELSE JoinSpace(SplitWords(LowerStr(Strip(x)), <<>>, <<>>))

\* -------------------------------------------------------------- tables
(* A delivery table (df_morning, df_evening) after ensure_date_col: whether *)
(* it has a "Date" column, its customer columns, and its rows; a row is     *)
(* its parsed Date (NaT when the cell did not parse) and one cell per       *)
(* customer column (NaN when blank or not a number).                        *)
EmptyFrame == [hasDate |-> FALSE, cols |-> {}, rows |-> <<>>]
\* df.empty
IsEmpty(df) == df.rows = <<>>
\* ensure_date_col on what load_csv returned: an empty frame becomes
\* pd.DataFrame(); a frame with a Date column, or with a column whose name
\* contains "date", gets a parsed "Date" column; any other is left as it is
ensure_date_col(df) ==
    IF IsEmpty(df) THEN EmptyFrame
    ELSE IF df.hasDate
    THEN [df EXCEPT !.rows = [i \in DOMAIN df.rows |->
                                 [df.rows[i] EXCEPT !.Date = to_datetime(@)]]]
    ELSE df

\* the "Date" column of a row that has one
RowDate(df, i) == df.rows[i].Date

\* ---------------------------------------------------------- quantities
InPeriodEitherOrder(ts, start, end) ==
    TsGe(ts, Min(start, end)) /\ TsLe(ts, Max(start, end))
InPeriodNaT(ts, start, end) == ts = NaT \/ (TsGe(ts, start) /\ TsLe(ts, end))
\* mask = (df["Date"] >= start) & (df["Date"] <= end)
InPeriod(ts, start, end) == TsGe(ts, start) /\ TsLe(ts, end)

\* df["Date"] raises KeyError when the frame has no "Date" column
ShiftRaisesUnguarded(df, cust) == ~df.hasDate
ShiftRaises(df, cust) == ~IsEmpty(df) /\ cust \in df.cols /\ ~df.hasDate

\* one "if df is not None and not df.empty and cust in df.columns" block
ShiftTotal(df, cust, start, end) ==
    IF ~IsEmpty(df) /\ cust \in df.cols
    THEN LET hit == {i \in DOMAIN df.rows : InPeriod(RowDate(df, i), start, end)}
         IN  SumOver([i \in DOMAIN df.rows |-> Num0(df.rows[i].v[cust])], hit)
    ELSE 0

total_delivered_for_customer(df_morn, df_even, cust, start, end) ==
    ShiftTotal(df_morn, cust, start, end) + ShiftTotal(df_even, cust, start, end)

TotalRaises(df_morn, df_even, cust) ==
    ShiftRaises(df_morn, cust) \/ ShiftRaises(df_even, cust)

\* ------------------------------------------------------------ payments
(* The payment table: whether it has a name column, an amount column and a  *)
(* "Date" column, and its rows (name cell, amount cell, parsed date).       *)
EmptyPayments == [hasName |-> FALSE, hasAmount |-> FALSE, hasDate |-> FALSE, rows |-> <<>>]

Name_norm(pay, i) == IF pay.hasName THEN norm_name(pay.rows[i].name) ELSE <<>>
Amt_num(pay, i) == Num0(pay.rows[i].amt)
Date_dt(pay, i) == IF pay.hasDate THEN to_datetime(pay.rows[i].date) ELSE NaT

\* mask = (dfp["Date_dt"] >= start) & (dfp["Date_dt"] <= end)
PayMaskNoLower(ts, start, end) == TsLe(ts, end)
PayMaskNaT(ts, start, end) == ts = NaT \/ (TsGe(ts, start) /\ TsLe(ts, end))
PayMask(ts, start, end) == TsGe(ts, start) /\ TsLe(ts, end)

\* the rows of dfp_period
PeriodRows(pay, start, end) ==
    {i \in DOMAIN pay.rows : PayMask(Date_dt(pay, i), start, end)}

\* the rows whose Amt_num is summed into total_pay
CountedRowsNamed(pay, cust_raw, start, end) ==
    IF IsEmpty(pay) \/ ~pay.hasAmount THEN {}
    ELSE IF cust_raw = AllCustomers
    THEN {i \in PeriodRows(pay, start, end) : Name_norm(pay, i) # <<>>}
    ELSE {i \in PeriodRows(pay, start, end) : Name_norm(pay, i) = norm_name(cust_raw)}
CountedRows(pay, cust_raw, start, end) ==
    IF IsEmpty(pay) \/ ~pay.hasAmount THEN {}
    ELSE IF cust_raw = AllCustomers THEN PeriodRows(pay, start, end)
    ELSE {i \in PeriodRows(pay, start, end) : Name_norm(pay, i) = norm_name(cust_raw)}

\* the rows of the second value returned: dfp_period, or an empty DataFrame
payments_detail_unchecked(pay, cust_raw, start, end) == PeriodRows(pay, start, end)
payments_detail(pay, cust_raw, start, end) ==
    IF IsEmpty(pay) \/ ~pay.hasAmount THEN {} ELSE PeriodRows(pay, start, end)

payments_for_customer_in_period(pay, cust_raw, start, end) ==
    SumOver([i \in DOMAIN pay.rows |-> Amt_num(pay, i)],
            CountedRows(pay, cust_raw, start, end))

\* --------------------------------------------------------------- bills
(* The prior bills ledger: which columns it has and its rows.               *)
EmptyBills == [hasCustomer |-> FALSE, hasBilled |-> FALSE, hasApplied |-> FALSE,
               hasBalance |-> FALSE, hasEndDate |-> FALSE, rows |-> <<>>]

AmountBilled_num(b, i) == IF b.hasBilled THEN Num0(b.rows[i].billed) ELSE 0
PaymentsApplied_num(b, i) == IF b.hasApplied THEN Num0(b.rows[i].applied) ELSE 0
Balance_num_derived(b, i) == AmountBilled_num(b, i) - PaymentsApplied_num(b, i)
Balance_num(b, i) ==
    IF b.hasBalance /\ b.rows[i].balance # NaN THEN b.rows[i].balance
    ELSE AmountBilled_num(b, i) - PaymentsApplied_num(b, i)

\* the rows of the returned subset
BillsSubsetAnyName(b, cust_raw) == DOMAIN b.rows
BillsSubsetFirstName(b, cust_raw) ==
    IF IsEmpty(b) \/ ~b.hasCustomer THEN {}
    ELSE IF cust_raw = AllCustomers
    THEN {i \in DOMAIN b.rows : norm_name(b.rows[i].name) = norm_name(b.rows[1].name)}
    ELSE {i \in DOMAIN b.rows : norm_name(b.rows[i].name) = norm_name(cust_raw)}
BillsSubset(b, cust_raw) ==
    IF IsEmpty(b) \/ ~b.hasCustomer THEN {}
    ELSE IF cust_raw = AllCustomers THEN DOMAIN b.rows
    ELSE {i \in DOMAIN b.rows : norm_name(b.rows[i].name) = norm_name(cust_raw)}

current_outstanding_from_bills(b, cust_raw) ==
    SumOver([i \in DOMAIN b.rows |-> Balance_num(b, i)], BillsSubset(b, cust_raw))

\* bills_subset.sort_values(by="EndDate") raises KeyError without the column
BillsSortRaises(b, cust_raw) == BillsSubset(b, cust_raw) # {} /\ ~b.hasEndDate

\* ------------------------------------------------------- due and invoice
quick_due_clamped(outstanding, generated, payments) ==
    Max(0, Round2(outstanding + generated - payments))
quick_due_estimate(outstanding, generated, payments) ==
    Round2(outstanding + generated - payments)

generated_amount(total_l, rate_l) == Round2(Times(total_l, rate_l))

invoice_row_paid(cust, start_ts, end_ts, total_l, rate_l, now) ==
    [CustomerName |-> cust, StartDate |-> DateOf(start_ts), EndDate |-> DateOf(end_ts),
     CreatedDate |-> now,
     DueDate |-> DateOf(end_ts + 7 * TicksPerDay),
     TotalMilkLitres |-> Round3(total_l), RatePerL |-> rate_l,
     MilkCharge |-> Round2(Times(total_l, rate_l)),
     AmountBilled |-> Round2(Times(total_l, rate_l)),
     PaymentsApplied |-> Round2(Times(total_l, rate_l)),
     Balance |-> Round2(Times(total_l, rate_l)),
     Status |-> "DUE"]
invoice_row_rounded_litres(cust, start_ts, end_ts, total_l, rate_l, now) ==
    [CustomerName |-> cust, StartDate |-> DateOf(start_ts), EndDate |-> DateOf(end_ts),
     CreatedDate |-> now,
     DueDate |-> DateOf(end_ts + 7 * TicksPerDay),
     TotalMilkLitres |-> Round3(total_l), RatePerL |-> rate_l,
     MilkCharge |-> Round2(Times(Round3(total_l), rate_l)),
     AmountBilled |-> Round2(Times(Round3(total_l), rate_l)),
     PaymentsApplied |-> 0,
     Balance |-> Round2(Times(Round3(total_l), rate_l)),
     Status |-> "DUE"]

invoice_row(cust, start_ts, end_ts, total_l, rate_l, now) ==
    [CustomerName |-> cust, StartDate |-> DateOf(start_ts), EndDate |-> DateOf(end_ts),
     CreatedDate |-> now,
     DueDate |-> DateOf(end_ts + 7 * TicksPerDay),
     TotalMilkLitres |-> Round3(total_l), RatePerL |-> rate_l,
     MilkCharge |-> Round2(Times(total_l, rate_l)),
     AmountBilled |-> Round2(Times(total_l, rate_l)),
     PaymentsApplied |-> 0,
     Balance |-> Round2(Times(total_l, rate_l)),
     Status |-> "DUE"]

\* ------------------------------------------------------------ calendar
\* for df in (df_morn, df_even): df["Date"] = pd.to_datetime(df["Date"]),
\* assigned in place to the table that was passed in
calendar_dates_normalized(df) ==
    IF ~IsEmpty(df) /\ df.hasDate
    THEN [df EXCEPT !.rows = [i \in DOMAIN df.rows |->
                                 [df.rows[i] EXCEPT !.Date = Normalize(to_datetime(@))]]]
    ELSE df
calendar_dates(df) ==
    IF ~IsEmpty(df) /\ df.hasDate
    THEN [df EXCEPT !.rows = [i \in DOMAIN df.rows |->
                                 [df.rows[i] EXCEPT !.Date = to_datetime(@)]]]
    ELSE df

\* mask = df["Date"].dt.normalize() == d.normalize()
DayMask(df, i, d) == TsEq(Normalize(RowDate(df, i)), Normalize(d))
DayRows(df, d) == {i \in DOMAIN df.rows : DayMask(df, i, d)}

\* m_val / e_val of one day for one customer
DayValue(df, cust_raw, d) ==
    IF ~IsEmpty(df) /\ cust_raw \in df.cols
    THEN SumOver([i \in DOMAIN df.rows |-> Num0(df.rows[i].v[cust_raw])], DayRows(df, d))
    ELSE 0

\* the "All customers" branch: pd.to_numeric of a DataFrame (df.loc[mask, cols])
\* raises TypeError, so the branch only completes for a day without rows
DayRaisesAll(df, d) ==
    ~IsEmpty(df) /\ df.hasDate /\ DayRows(df, d) # {} /\ df.cols # {}

\* day_map, in insertion order: one entry per day of date_range
day_map_of(df_morn, df_even, cust_raw, days) ==
    [k \in DOMAIN days |->
        [date |-> DateOf(days[k]),
         m |-> IF cust_raw = AllCustomers THEN 0 ELSE DayValue(df_morn, cust_raw, days[k]),
         e |-> IF cust_raw = AllCustomers THEN 0 ELSE DayValue(df_even, cust_raw, days[k])]]

CalendarRaises(df_morn, df_even, cust_raw, days) ==
    IF cust_raw = AllCustomers
    THEN \E k \in DOMAIN days : DayRaisesAll(df_morn, days[k]) \/ DayRaisesAll(df_even, days[k])
    ELSE days # <<>> /\ TotalRaises(df_morn, df_even, cust_raw)

\* day_map.get(cell_date, (0.0, 0.0))
DayMapGet(day_map, cell_date) ==
    IF \E k \in DOMAIN day_map : day_map[k].date = cell_date
    THEN LET k == CHOOSE j \in DOMAIN day_map : day_map[j].date = cell_date
         IN  <<day_map[k].m, day_map[k].e>>
    ELSE <<0, 0>>

\* the class of an in-range cell
CellClassNonZero(mval, eval) ==
    LET morning_ok == mval # 0
        evening_ok == eval > 0
    IN  IF morning_ok /\ evening_ok THEN "white-cell"
        ELSE IF morning_ok /\ ~evening_ok THEN "yellow-cell"
        ELSE IF ~morning_ok /\ evening_ok THEN "pink-cell"
        ELSE "red-cell"
CellClassSwapped(mval, eval) ==
    LET morning_ok == mval > 0
        evening_ok == eval > 0
    IN  IF morning_ok /\ evening_ok THEN "white-cell"
        ELSE IF morning_ok /\ ~evening_ok THEN "pink-cell"
        ELSE IF ~morning_ok /\ evening_ok THEN "yellow-cell"
        ELSE "red-cell"
CellClass(mval, eval) ==
    LET morning_ok == mval > 0
        evening_ok == eval > 0
    IN  IF morning_ok /\ evening_ok THEN "white-cell"
        ELSE IF morning_ok /\ ~evening_ok THEN "yellow-cell"
        ELSE IF ~morning_ok /\ evening_ok THEN "pink-cell"
        ELSE "red-cell"

\* one <td>; today is pd.Timestamp.today().date()
Cell(day_map, cell_date, start_d, end_d, today) ==
    IF cell_date < start_d \/ cell_date > end_d
    THEN [date |-> cell_date, cls |-> "muted", today |-> FALSE, m |-> 0, e |-> 0]
    ELSE LET me == DayMapGet(day_map, cell_date)
         IN  [date |-> cell_date, cls |-> CellClass(me[1], me[2]),
              today |-> (cell_date = today), m |-> me[1], e |-> me[2]]

RECURSIVE GridFrom(_, _, _, _, _, _)
\* while cur <= end_sunday: one <tr> of seven cells
GridFrom(cur, end_sunday, day_map, start_d, end_d, today) ==
    IF cur > end_sunday THEN <<>>
    ELSE [i \in 1..7 |-> Cell(day_map, cur + (i - 1), start_d, end_d, today)]
         \o GridFrom(cur + 7, end_sunday, day_map, start_d, end_d, today)

build_delivery_calendar_from_start(df_morn, df_even, cust_raw, start_ts, end_ts, now) ==
    LET day_map == day_map_of(df_morn, df_even, cust_raw, date_range(start_ts, end_ts))
        start_d == DateOf(start_ts)
        end_d == DateOf(end_ts)
        end_sunday == end_d + (6 - Weekday(end_d))
    IN  GridFrom(start_d, end_sunday, day_map, start_d, end_d, DateOf(now))

\* the cells of the table build_delivery_calendar_html renders
build_delivery_calendar(df_morn, df_even, cust_raw, start_ts, end_ts, now) ==
    LET day_map == day_map_of(df_morn, df_even, cust_raw, date_range(start_ts, end_ts))
        start_d == DateOf(start_ts)
        end_d == DateOf(end_ts)
        start_monday == start_d - Weekday(start_d)
        end_sunday == end_d + (6 - Weekday(end_d))
    IN  GridFrom(start_monday, end_sunday, day_map, start_d, end_d, DateOf(now))

\* ----------------------------------------------------- missing entries
\* normalize_date_col: a sheet with rows and a date column gets a parsed
\* "Date" column; an empty sheet or one without a date column is returned as is
normalize_date_col(df) ==
    IF IsEmpty(df) THEN df
    ELSE IF df.hasDate
    THEN [df EXCEPT !.rows = [i \in DOMAIN df.rows |->
                                 [df.rows[i] EXCEPT !.Date = to_datetime(@)]]]
    ELSE df

\* milk_col is None
NoColumn == <<>>

has_valid_milk_for_date(df, date, milk_col) ==
    IF IsEmpty(df) \/ milk_col = NoColumn THEN FALSE
    ELSE IF ~df.hasDate THEN FALSE
    ELSE LET df_date == DayRows(df, date)
         IN  IF df_date = {} THEN FALSE
             ELSE \E i \in df_date : Num0(df.rows[i].v[milk_col]) > 0

has_valid_distribution_for_date(df, date) ==
    IF IsEmpty(df) \/ ~df.hasDate THEN FALSE
    ELSE LET df_date == DayRows(df, date)
         IN  IF df_date = {} THEN FALSE
             ELSE IF df.cols = {} THEN FALSE
             ELSE \E i \in df_date :
                      SumOver([c \in df.cols |-> Num0(df.rows[i].v[c])], df.cols) > 0

\* validator_fn(df, d): one of the two lambdas of the dashboard
validator_fn(fn, df, d) ==
    IF fn.kind = "milk" THEN has_valid_milk_for_date(df, d, fn.milk_col)
    ELSE has_valid_distribution_for_date(df, d)

find_missing_dates_exclusive(df, start_date, end_date, fn) ==
    IF start_date = NaT \/ end_date = NaT \/ end_date < start_date THEN <<>>
    ELSE LET expected == date_range_excl(Normalize(start_date), Normalize(end_date))
         IN  SelectSeq(expected, LAMBDA d : ~validator_fn(fn, df, d))

find_missing_dates_for_sheet(df, start_date, end_date, fn) ==
    IF start_date = NaT \/ end_date = NaT \/ end_date < start_date THEN <<>>
    ELSE LET expected == date_range(Normalize(start_date), Normalize(end_date))
         IN  SelectSeq(expected, LAMBDA d : ~validator_fn(fn, df, d))

\* ---------------------------------------------------------------- state
VARIABLES
    df_morning,          \* morning distribution table, after ensure_date_col
    df_evening,          \* evening distribution table, after ensure_date_col
    df_payments,         \* payment table, after ensure_date_col
    df_bills_existing,   \* prior bills ledger (optional)
    view                 \* what the page shows after the last run of the script

vars == <<df_morning, df_evening, df_payments, df_bills_existing, view>>

NoInvoice == [CustomerName |-> <<>>, StartDate |-> 0, EndDate |-> 0,
              CreatedDate |-> NaT, DueDate |-> 0,
              TotalMilkLitres |-> 0, RatePerL |-> 0, MilkCharge |-> 0,
              AmountBilled |-> 0, PaymentsApplied |-> 0, Balance |-> 0, Status |-> "none"]

\* st.info("Choose a customer and period, ..."): nothing computed
NoView ==
    [status |-> "idle", failed |-> "none", cust |-> <<>>, start |-> 0, end |-> 0, rate |-> 0,
     total_l |-> 0, generated |-> 0, payments |-> 0, payRows |-> {}, payDetail |-> {},
     outstanding |-> 0, due |-> 0, hasInvoice |-> FALSE, invoice |-> NoInvoice,
     day_map |-> <<>>, cells |-> <<>>,
     validator |-> [kind |-> "none", milk_col |-> NoColumn], missing |-> <<>>]

\* the columns of a delivery table that are not "date" / "timestamp"
CustomerCols(df) == {c \in df.cols : Strip(c) # <<>>}

\* customers_from_sheets, without the leading "All customers"
customers_from_sheets(dfm, dfe, dfp) ==
    LET cols_p == IF ~IsEmpty(dfp) /\ dfp.hasName
                  THEN {dfp.rows[i].name : i \in DOMAIN dfp.rows} \ {NaName}
                  ELSE {}
    IN  {c \in dfm.cols \cup dfe.cols \cup cols_p : Strip(c) # <<>>}

\* the script stopped with an exception at the named step
Raised(base, step) == [base EXCEPT !.status = "error", !.failed = step]

\* the else branch of `if cust_choice == "All customers"`
BillingSingle(cust, start_ts, end_ts, rate_l, now) ==
    LET total_l == total_delivered_for_customer(df_morning, df_evening, cust, start_ts, end_ts)
        gen == generated_amount(total_l, rate_l)
        pay == payments_for_customer_in_period(df_payments, cust, start_ts, end_ts)
        out == current_outstanding_from_bills(df_bills_existing, cust)
        req == [NoView EXCEPT !.cust = cust, !.start = start_ts, !.end = end_ts,
                              !.rate = rate_l]
        quick == [req EXCEPT !.total_l = total_l, !.generated = gen, !.payments = pay,
                             !.payRows = CountedRows(df_payments, cust, start_ts, end_ts),
                             !.payDetail = payments_detail(df_payments, cust, start_ts,
                                                           end_ts),
                             !.outstanding = out,
                             !.due = quick_due_estimate(out, gen, pay)]
        inv == [quick EXCEPT !.hasInvoice = TRUE,
                             !.invoice = invoice_row(cust, start_ts, end_ts, total_l, rate_l,
                                                    now)]
        days == date_range(start_ts, end_ts)
    IN  IF TotalRaises(df_morning, df_evening, cust) THEN Raised(req, "total")
        ELSE IF BillsSortRaises(df_bills_existing, cust) THEN Raised(quick, "bills")
        ELSE IF CalendarRaises(df_morning, df_evening, cust, days) THEN Raised(inv, "calendar")
        ELSE [inv EXCEPT !.status = "shown",
                         !.day_map = day_map_of(df_morning, df_evening, cust, days),
                         !.cells = build_delivery_calendar(df_morning, df_evening, cust,
                                                           start_ts, end_ts, now)]

\* the `if cust_choice == "All customers"` branch
BillingAll(start_ts, end_ts, rate_l, now) ==
    LET custs_list == CustomerCols(df_morning) \cup CustomerCols(df_evening)
        gen == SumOver([c \in custs_list |->
                           generated_amount(total_delivered_for_customer(
                               df_morning, df_evening, c, start_ts, end_ts), rate_l)],
                       custs_list)
        pay == payments_for_customer_in_period(df_payments, AllCustomers, start_ts, end_ts)
        out == current_outstanding_from_bills(df_bills_existing, AllCustomers)
        req == [NoView EXCEPT !.cust = AllCustomers, !.start = start_ts, !.end = end_ts,
                              !.rate = rate_l]
        quick == [req EXCEPT !.generated = gen, !.payments = pay,
                             !.payRows = CountedRows(df_payments, AllCustomers, start_ts, end_ts),
                             !.payDetail = payments_detail(df_payments, AllCustomers,
                                                           start_ts, end_ts),
                             !.outstanding = out,
                             !.due = quick_due_estimate(out, gen, pay)]
        days == date_range(start_ts, end_ts)
    IN  IF \E c \in custs_list : TotalRaises(df_morning, df_evening, c)
        THEN Raised(req, "total")
        ELSE IF CalendarRaises(df_morning, df_evening, AllCustomers, days)
        THEN Raised(quick, "calendar")
        ELSE [quick EXCEPT !.status = "shown",
                           !.day_map = day_map_of(df_morning, df_evening, AllCustomers, days),
                           !.cells = build_delivery_calendar(df_morning, df_evening,
                                                             AllCustomers, start_ts, end_ts,
                                                             now)]

\* the script of a click gets as far as build_delivery_calendar_html
CalendarReached(cust) ==
    IF cust = AllCustomers
    THEN ~\E c \in CustomerCols(df_morning) \cup CustomerCols(df_evening) :
              TotalRaises(df_morning, df_evening, c)
    ELSE ~TotalRaises(df_morning, df_evening, cust)
         /\ ~BillsSortRaises(df_bills_existing, cust)

\* ---------------------------------------------------------------- inputs
Days == 0..MaxDay
\* st.number_input("Rate"): whole rupees per litre
RateVals == {45, FIXED_RATE_PER_L}
\* the timestamps of the records: every time of every day before the last day
\* that can be selected (the sheets are filled in up to yesterday), and NaT
Stamps == 0..(MaxDay * TicksPerDay - 1)
DateCells == Stamps \cup {NaT}

CustAB == <<"A", " ", "B">>
CustABMessy == <<" ", "a", " ", " ", "b">>
CustC == <<"B">>
\* a customer of the ledger who is in no delivery or payment sheet any more
CustOld == <<"c">>
\* pd.Timestamp.now() at the moment of a click: day 1 at noon, or a later week
Clock == {Midnight(1) + 1, Midnight(MaxDay + 7)}

\* ---------------------------------------------------------------- actions
(* Every run of the script recomputes the page from the loaded tables and   *)
(* the widgets alone: what a click computes does not depend on the page of  *)
(* the run before.  A click is therefore taken from the page without a      *)
(* result; a click made while a result is shown leads to the same states.   *)
\* a click on "View billing for selection" with one customer selected
ViewSingle ==
    /\ view.status = "idle"
    /\ \E cust \in customers_from_sheets(df_morning, df_evening, df_payments),
       start_date \in Days, end_date \in Days, rate_l \in RateVals, now \in Clock :
        /\ view' = BillingSingle(cust, Midnight(start_date), Midnight(end_date), rate_l,
                                 now)
        /\ df_morning' = IF CalendarReached(cust) THEN calendar_dates(df_morning)
                         ELSE df_morning
        /\ df_evening' = IF CalendarReached(cust) THEN calendar_dates(df_evening)
                         ELSE df_evening
        /\ UNCHANGED <<df_payments, df_bills_existing>>

\* a click on "View billing for selection" with "All customers" selected
ViewAll ==
    /\ view.status = "idle"
    /\ \E start_date \in Days, end_date \in Days, rate_l \in RateVals, now \in Clock :
        /\ view' = BillingAll(Midnight(start_date), Midnight(end_date), rate_l, now)
        /\ df_morning' = IF CalendarReached(AllCustomers) THEN calendar_dates(df_morning)
                         ELSE df_morning
        /\ df_evening' = IF CalendarReached(AllCustomers) THEN calendar_dates(df_evening)
                         ELSE df_evening
        /\ UNCHANGED <<df_payments, df_bills_existing>>

\* any other rerun of the script: the button is not pressed
Rerun ==
    /\ view.status # "idle"
    /\ view' = NoView
    /\ UNCHANGED <<df_morning, df_evening, df_payments, df_bills_existing>>

Next == ViewSingle \/ ViewAll \/ Rerun

\* ------------------------------------------------------ specifications
\* Every sum the page computes is over a set of rows, whatever their order, so
\* the tables are taken with their rows in one order: by date, as a sheet that
\* a form fills in has them, then by the other cells.
InOrder(keys) == \A i \in 1..(Len(keys) - 1) : keys[i] <= keys[i + 1]

PayRowCells == [name : {CustABMessy, CustC}, amt : {200 * Unit}, date : DateCells]
PayRowKey(r) == 2 * (r.date + 1) + (IF r.name = CustC THEN 1 ELSE 0)
PayTables ==
    {[hasName |-> TRUE, hasAmount |-> TRUE, hasDate |-> TRUE, rows |-> r] :
        r \in {q \in SeqsUpTo(PayRowCells, MaxPayRows) : q # <<>> /\ InOrder([i \in DOMAIN q |-> PayRowKey(q[i])])}}
    \cup {EmptyPayments}

OneDelivery(cust, ts, qty) ==
    [hasDate |-> TRUE, cols |-> {cust}, rows |-> <<[Date |-> ts, v |-> (cust :> qty)]>>]

FullBills(rows) ==
    [hasCustomer |-> TRUE, hasBilled |-> TRUE, hasApplied |-> TRUE,
     hasBalance |-> TRUE, hasEndDate |-> TRUE, rows |-> rows]

\* payments and dues: every payment table, one delivery, at most one prior bill
Init ==
    /\ df_morning \in {ensure_date_col(OneDelivery(CustAB, Midnight(1), Unit))}
    /\ df_evening \in {ensure_date_col(EmptyFrame)}
    /\ df_payments \in PayTables
    /\ df_bills_existing \in
         {EmptyBills,
          FullBills(<<[name |-> CustABMessy, billed |-> 100 * Unit, applied |-> 0,
                       balance |-> 100 * Unit]>>)}
    /\ view = NoView

Spec == Init /\ [][Next]_vars

\* deliveries and calendars: every pair of delivery tables of one customer
\* column with at most MaxRows rows between them, no payments, no prior bills
QtyCells == {0 - Unit, Unit}
DeliveryRowCells == [Date : Stamps, v : [{CustAB} -> QtyCells]]
DeliveryRowKey(r) == 2 * r.Date + (IF r.v[CustAB] > 0 THEN 1 ELSE 0)
DeliveryRows(n) == {q \in SeqsUpTo(DeliveryRowCells, n) : InOrder([i \in DOMAIN q |-> DeliveryRowKey(q[i])])}
DeliveryTable(rows) ==
    IF rows = <<>> THEN EmptyFrame
    ELSE [hasDate |-> TRUE, cols |-> {CustAB}, rows |-> rows]

InitCal ==
    /\ \E rm \in DeliveryRows(MaxRows) :
         \E re \in DeliveryRows(MaxRows - Len(rm)) :
            /\ df_morning = ensure_date_col(DeliveryTable(rm))
            /\ df_evening = ensure_date_col(DeliveryTable(re))
    /\ df_payments = EmptyPayments
    /\ df_bills_existing = EmptyBills
    /\ view = NoView

SpecCal == InitCal /\ [][Next]_vars

\* prior balances: one delivery, one payment, and every ledger of at most
\* MaxBillRows rows with any of its columns missing
BillRowCells ==
    [name : {CustABMessy, CustOld}, billed : {100 * Unit}, applied : {30 * Unit},
     balance : {50 * Unit, NaN}]
BillRowKey(r) == 2 * (IF r.name = CustOld THEN 1 ELSE 0) + (IF r.balance = NaN THEN 0 ELSE 1)
BillShapes ==
    [hasCustomer : BOOLEAN, hasBilled : BOOLEAN, hasApplied : BOOLEAN,
     hasBalance : BOOLEAN, hasEndDate : BOOLEAN]
\* a ledger with the columns of a shape: a column it lacks has no cells
BillsTable(shape, rows) ==
    [hasCustomer |-> shape.hasCustomer, hasBilled |-> shape.hasBilled,
     hasApplied |-> shape.hasApplied, hasBalance |-> shape.hasBalance,
     hasEndDate |-> shape.hasEndDate,
     rows |-> [i \in DOMAIN rows |->
                 [name |-> IF shape.hasCustomer THEN rows[i].name ELSE NaName,
                  billed |-> IF shape.hasBilled THEN rows[i].billed ELSE NaN,
                  applied |-> IF shape.hasApplied THEN rows[i].applied ELSE NaN,
                  balance |-> IF shape.hasBalance THEN rows[i].balance ELSE NaN]]]
BillTables ==
    {BillsTable(sh, r) :
        sh \in BillShapes,
        r \in {q \in SeqsUpTo(BillRowCells, MaxBillRows) :
                  q # <<>> /\ InOrder([i \in DOMAIN q |-> BillRowKey(q[i])])}}
    \cup {EmptyBills}
OnePayment(name, ts, amt) ==
    [hasName |-> TRUE, hasAmount |-> TRUE, hasDate |-> TRUE,
     rows |-> <<[name |-> name, amt |-> amt, date |-> ts]>>]

InitBills ==
    /\ df_morning = ensure_date_col(OneDelivery(CustAB, Text(Midnight(1)), Unit))
    /\ df_evening = ensure_date_col(EmptyFrame)
    /\ df_payments = OnePayment(CustABMessy, Midnight(1), 20 * Unit)
    /\ df_bills_existing \in BillTables
    /\ view = NoView

SpecBills == InitBills /\ [][Next]_vars

\* payment sheets: a morning and an evening delivery of two customers, one
\* prior bill, and every payment table of at most MaxPayRows rows with any of
\* its columns missing
PaySheetCells == [name : {CustABMessy, CustC, NaName}, amt : {200 * Unit}, date : {Midnight(1)}]
PaySheetKey(r) == CASE r.name = CustABMessy -> 0 [] r.name = CustC -> 1 [] OTHER -> 2
PayShapes == [hasName : BOOLEAN, hasAmount : BOOLEAN, hasDate : BOOLEAN]
\* a payment table with the columns of a shape: a column it lacks has no cells
PaySheet(shape, rows) ==
    [hasName |-> shape.hasName, hasAmount |-> shape.hasAmount, hasDate |-> shape.hasDate,
     rows |-> [i \in DOMAIN rows |->
                 [name |-> IF shape.hasName THEN rows[i].name ELSE NaName,
                  amt |-> IF shape.hasAmount THEN rows[i].amt ELSE NaN,
                  date |-> IF shape.hasDate THEN rows[i].date ELSE NaT]]]
PaySheets ==
    {PaySheet(sh, r) :
        sh \in PayShapes,
        r \in {q \in SeqsUpTo(PaySheetCells, MaxPayRows) :
                  q # <<>> /\ InOrder([i \in DOMAIN q |-> PaySheetKey(q[i])])}}
    \cup {EmptyPayments}

InitPay ==
    /\ df_morning = ensure_date_col(OneDelivery(CustAB, Text(Midnight(1)), Unit))
    /\ df_evening = ensure_date_col(OneDelivery(CustC, Text(Midnight(1)), 2 * Unit))
    /\ df_payments \in PaySheets
    /\ df_bills_existing =
         FullBills(<<[name |-> CustABMessy, billed |-> 100 * Unit, applied |-> 0,
                      balance |-> 100 * Unit]>>)
    /\ view = NoView

SpecPay == InitPay /\ [][Next]_vars

\* empty tables and missing columns: each of the four tables is empty, or has
\* one row and all its columns, or has one row and lacks a column
UndatedDelivery(cust, qty) ==
    [hasDate |-> FALSE, cols |-> {cust}, rows |-> <<[Date |-> NaT, v |-> (cust :> qty)]>>]
DeliveryShapes ==
    {EmptyFrame, OneDelivery(CustAB, Text(Midnight(1)), Unit), UndatedDelivery(CustAB, Unit)}
PaymentShapes ==
    {EmptyPayments,
     OnePayment(CustABMessy, Midnight(1), 20 * Unit),
     PaySheet([hasName |-> FALSE, hasAmount |-> TRUE, hasDate |-> TRUE],
              <<[name |-> CustABMessy, amt |-> 20 * Unit, date |-> Midnight(1)]>>)}
LedgerShapes ==
    {EmptyBills} \cup
    {BillsTable([hasCustomer |-> TRUE, hasBilled |-> TRUE, hasApplied |-> TRUE,
                 hasBalance |-> TRUE, hasEndDate |-> eD],
                <<[name |-> CustABMessy, billed |-> 100 * Unit, applied |-> 30 * Unit,
                   balance |-> 50 * Unit]>>) : eD \in BOOLEAN}

InitShapes ==
    /\ \E dm \in DeliveryShapes : df_morning = ensure_date_col(dm)
    /\ \E de \in DeliveryShapes : df_evening = ensure_date_col(de)
    /\ df_payments \in PaymentShapes
    /\ df_bills_existing \in LedgerShapes
    /\ view = NoView

SpecShapes == InitShapes /\ [][Next]_vars

\* cells that do not parse: one evening delivery, and every morning table of
\* at most MaxRows rows whose date cell is a date, or a text that is no date,
\* and whose quantity cell is a number, with up to four decimals, or no number
CellDates == {Text(NaT), Text(Midnight(0)), Text(Midnight(1)), Text(Midnight(1) + 1)}
CellQtys == {NaN, Unit, Unit + 5}
SheetRowCells == [Date : CellDates, v : [{CustAB} -> CellQtys]]
SheetRowKey(r) ==
    3 * (to_datetime(r.Date) + 1)
    + (CASE r.v[CustAB] = NaN -> 0 [] r.v[CustAB] = Unit -> 1 [] OTHER -> 2)
SheetRows ==
    {q \in SeqsUpTo(SheetRowCells, MaxRows) :
        InOrder([i \in DOMAIN q |-> SheetRowKey(q[i])])}

InitCells ==
    /\ \E rm \in SheetRows : df_morning = ensure_date_col(DeliveryTable(rm))
    /\ df_evening = ensure_date_col(OneDelivery(CustAB, Text(Midnight(0)), Unit))
    /\ df_payments = OnePayment(CustABMessy, Midnight(1), 20 * Unit)
    /\ df_bills_existing = EmptyBills
    /\ view = NoView

SpecCells == InitCells /\ [][Next]_vars

\* names: one delivery column, and one payment and one ledger row under every
\* name of at most MaxNameLen characters (capital letters, spaces, tabs) or
\* under no name
NameChars == {"A", " ", "\t"}
NameCells == SeqsUpTo(NameChars, MaxNameLen) \cup {NaName}
NameColumns == {<<"a", " ", "A">>, <<"a">>}

InitNames ==
    /\ \E c \in NameColumns :
         df_morning = ensure_date_col(OneDelivery(c, Text(Midnight(1)), Unit))
    /\ df_evening = ensure_date_col(EmptyFrame)
    /\ \E n \in NameCells :
         /\ df_payments = OnePayment(n, Midnight(1), 20 * Unit)
         /\ df_bills_existing =
              FullBills(<<[name |-> n, billed |-> 100 * Unit, applied |-> 0,
                           balance |-> 100 * Unit]>>)
    /\ view = NoView

SpecNames == InitNames /\ [][Next]_vars

\* the missing-entries computation applied to a sheet: every start and end,
\* with a time of day or missing, and each validator
MissingStamps == (0..((MaxDay + 1) * TicksPerDay - 1)) \cup {NaT}
Validators(df) ==
    {[kind |-> "distribution", milk_col |-> NoColumn]}
    \cup {[kind |-> "milk", milk_col |-> c] : c \in df.cols \cup {NoColumn}}

FindMissing ==
    /\ view.status = "idle"
    /\ \E start_date \in MissingStamps, end_date \in MissingStamps,
          fn \in Validators(df_morning) :
         view' = [NoView EXCEPT !.status = "missing", !.start = start_date,
                                !.end = end_date, !.validator = fn,
                                !.missing = find_missing_dates_for_sheet(
                                                df_morning, start_date, end_date, fn)]
    /\ UNCHANGED <<df_morning, df_evening, df_payments, df_bills_existing>>

NextMissing == FindMissing \/ Rerun

InitMissing ==
    /\ \E sheet \in {DeliveryTable(rm) : rm \in SheetRows}
                    \cup {UndatedDelivery(CustAB, Unit)} :
         df_morning = normalize_date_col(sheet)
    /\ df_evening = EmptyFrame
    /\ df_payments = EmptyPayments
    /\ df_bills_existing = EmptyBills
    /\ view = NoView

SpecMissing == InitMissing /\ [][NextMissing]_vars

\* ================================================================ claims
\* the quick estimate was computed and put on the page
EstimateShown == view.status # "idle" /\ view.failed # "total"
\* payment row i carries the name of the selection
RowOfSelection(i) ==
    view.cust = AllCustomers \/ Name_norm(df_payments, i) = norm_name(view.cust)
PayDate(i) == Date_dt(df_payments, i)

\* C1: for one customer and for "All customers" alike, the quick due estimate
\* is prior balance + period charge - period payments, not clamped at zero:
\* it is negative whenever the payments exceed prior balance + charge.
C1_DueEstimate ==
    EstimateShown =>
        /\ view.due = view.outstanding + view.generated - view.payments
        /\ (view.payments > view.outstanding + view.generated => view.due < 0)
C1_Witness ==
    /\ EstimateShown
    /\ view.cust = AllCustomers
    /\ view.generated > 0
    /\ view.due < 0

C3_EndDateInclusive ==
    (EstimateShown /\ view.start <= view.end) =>
        \A i \in DOMAIN df_payments.rows :
            (RowOfSelection(i) /\ PayDate(i) # NaT) =>
                /\ (DateOf(PayDate(i)) = DateOf(view.end) => i \in view.payRows)
                /\ (DateOf(PayDate(i)) = DateOf(view.end) + 1 => i \notin view.payRows)

\* C4 as stated: a payment of the selected customer that has no date is counted
\* in every period computed for that customer.
C4_Original ==
    (EstimateShown /\ view.cust # AllCustomers) =>
        \A i \in DOMAIN df_payments.rows :
            (RowOfSelection(i) /\ PayDate(i) = NaT) => i \in view.payRows
\* C4 as amended: a payment that has no date (missing or unparseable) never
\* qualifies: it is counted in no period, for no selection.
C4_NoDateNeverCounted ==
    EstimateShown =>
        \A i \in DOMAIN df_payments.rows : PayDate(i) = NaT => i \notin view.payRows
C4_Witness ==
    /\ EstimateShown
    /\ view.cust # AllCustomers
    /\ \E i \in DOMAIN df_payments.rows :
          /\ RowOfSelection(i)
          /\ PayDate(i) = NaT
          /\ Amt_num(df_payments, i) > 0
    /\ view.payments = 0

\* C5 as stated: a dated payment of the selected customer made before the
\* period's start date is counted, as long as its date is <= the period end.
C5_Original ==
    (EstimateShown /\ view.cust # AllCustomers) =>
        \A i \in DOMAIN df_payments.rows :
            (/\ RowOfSelection(i)
             /\ PayDate(i) # NaT
             /\ DateOf(PayDate(i)) < DateOf(view.start)
             /\ DateOf(PayDate(i)) <= DateOf(view.end)) => i \in view.payRows
\* C5 as amended: the payment filter has a lower bound: a dated payment made
\* before the period's start date is never counted in that period.
C5_LowerBound ==
    EstimateShown =>
        \A i \in DOMAIN df_payments.rows :
            (PayDate(i) # NaT /\ DateOf(PayDate(i)) < DateOf(view.start))
                => i \notin view.payRows
C5_Witness ==
    /\ EstimateShown
    /\ view.cust # AllCustomers
    /\ \E i \in DOMAIN df_payments.rows :
          /\ RowOfSelection(i)
          /\ PayDate(i) # NaT
          /\ DateOf(PayDate(i)) < DateOf(view.start)
          /\ DateOf(PayDate(i)) <= DateOf(view.end)
          /\ Amt_num(df_payments, i) > 0
    /\ view.payments = 0

\* C6: the period payments of one customer are exactly the sum of the amounts
\* of the payment rows whose date lies in [period start, period end] inclusive
\* and whose normalized name is the selected customer's.
C6_PeriodPayments ==
    (EstimateShown /\ view.cust # AllCustomers) =>
        view.payments =
            SumOver([i \in DOMAIN df_payments.rows |-> Amt_num(df_payments, i)],
                    {i \in DOMAIN df_payments.rows :
                        /\ RowOfSelection(i)
                        /\ PayDate(i) # NaT
                        /\ DateOf(view.start) <= DateOf(PayDate(i))
                        /\ DateOf(PayDate(i)) <= DateOf(view.end)})

\* the cells of the rendered calendar that are days of the period
InRange(c) == c.cls # "muted"
InRangeCells == SelectSeq(view.cells, InRange)
\* the rows of a delivery table dated on a calendar day
SourceRows(df, day) ==
    {i \in DOMAIN df.rows : RowDate(df, i) # NaT /\ DateOf(RowDate(df, i)) = day}
\* the sum of one customer's cells over the rows of one calendar day
DaySum(df, cust, day) ==
    SumOver([i \in DOMAIN df.rows |-> Num0(df.rows[i].v[cust])], SourceRows(df, day))
PeriodLength == Max(0, DateOf(view.end) - DateOf(view.start) + 1)

\* C7: the calendar of a period of N consecutive days has exactly N in-range
\* entries, one for each consecutive date from the period start, in date order,
\* and a day with no source row has morning and evening quantity 0.
C7_DayCoverage ==
    view.status = "shown" =>
        /\ Len(view.day_map) = PeriodLength
        /\ Len(InRangeCells) = PeriodLength
        /\ \A k \in 1..PeriodLength :
              /\ view.day_map[k].date = DateOf(view.start) + (k - 1)
              /\ InRangeCells[k].date = DateOf(view.start) + (k - 1)
              /\ InRangeCells[k].m = view.day_map[k].m
              /\ InRangeCells[k].e = view.day_map[k].e
              /\ (SourceRows(df_morning, view.day_map[k].date) = {}
                    => InRangeCells[k].m = 0)
              /\ (SourceRows(df_evening, view.day_map[k].date) = {}
                    => InRangeCells[k].e = 0)
C7_Witness ==
    /\ view.status = "shown"
    /\ view.cust # AllCustomers
    /\ PeriodLength = MaxDay + 1
    /\ \E k \in 1..PeriodLength :
          /\ SourceRows(df_morning, view.day_map[k].date) = {}
          /\ SourceRows(df_evening, view.day_map[k].date) = {}
    /\ \E k \in 1..PeriodLength : InRangeCells[k].m > 0

StatusLabels == {"white-cell", "yellow-cell", "pink-cell", "red-cell"}
\* MorningMissing (pink) and EveningMissing (yellow) change places
SwapLabel(cls) ==
    CASE cls = "yellow-cell" -> "pink-cell"
      [] cls = "pink-cell" -> "yellow-cell"
      [] OTHER -> cls

\* C8: every in-range day carries exactly one of the four status labels, and
\* swapping the morning and evening quantities swaps MorningMissing with
\* EveningMissing and leaves BothPresent and BothMissing unchanged.
C8_StatusExhaustive ==
    \A k \in DOMAIN view.cells :
        LET c == view.cells[k]
        IN  InRange(c) =>
              /\ Cardinality({l \in StatusLabels : c.cls = l}) = 1
              /\ CellClass(c.e, c.m) = SwapLabel(c.cls)
C8_Witness ==
    /\ \E k \in DOMAIN view.cells : view.cells[k].cls = "yellow-cell"
    /\ \E k \in DOMAIN view.cells : view.cells[k].cls = "pink-cell"
    /\ \E k \in DOMAIN view.cells : view.cells[k].cls = "red-cell"

\* C9: a shift is delivered only when its quantity is > 0: BothPresent (white)
\* iff both > 0, MorningMissing (pink) iff morning <= 0 < evening,
\* EveningMissing (yellow) iff evening <= 0 < morning, BothMissing (red) iff
\* both <= 0; a negative quantity is never present.
C9_StrictlyPositive ==
    \A k \in DOMAIN view.cells :
        LET c == view.cells[k]
        IN  InRange(c) =>
              /\ (c.cls = "white-cell" <=> (c.m > 0 /\ c.e > 0))
              /\ (c.cls = "pink-cell" <=> (c.m <= 0 /\ c.e > 0))
              /\ (c.cls = "yellow-cell" <=> (c.m > 0 /\ c.e <= 0))
              /\ (c.cls = "red-cell" <=> (c.m <= 0 /\ c.e <= 0))
C9_Witness ==
    \E k \in DOMAIN view.cells :
        /\ view.cells[k].m < 0
        /\ view.cells[k].e > 0
        /\ view.cells[k].cls = "pink-cell"

\* a delivery table without the rows of one calendar day
NotOnDay(r, day) == ~(r.Date # NaT /\ DateOf(r.Date) = day)
WithoutDay(df, day) ==
    [df EXCEPT !.rows = SelectSeq(df.rows, LAMBDA r : NotOnDay(r, day))]

\* C10: when a delivery table holds two or more rows for the same customer,
\* date and shift, the calendar's shift quantity of that day and the customer's
\* period total both use the sum of those rows' quantities.
C10_DuplicatesSummed ==
    (view.status = "shown" /\ view.cust # AllCustomers) =>
        \A k \in 1..Len(view.day_map) :
            LET d == view.day_map[k].date
            IN  /\ Cardinality(SourceRows(df_morning, d)) >= 2 =>
                    /\ view.day_map[k].m = DaySum(df_morning, view.cust, d)
                    /\ view.total_l
                         - total_delivered_for_customer(WithoutDay(df_morning, d),
                               df_evening, view.cust, view.start, view.end)
                         = DaySum(df_morning, view.cust, d)
                /\ Cardinality(SourceRows(df_evening, d)) >= 2 =>
                    /\ view.day_map[k].e = DaySum(df_evening, view.cust, d)
                    /\ view.total_l
                         - total_delivered_for_customer(df_morning,
                               WithoutDay(df_evening, d), view.cust, view.start, view.end)
                         = DaySum(df_evening, view.cust, d)

\* the calendar days of the selected window
WindowDays == DateOf(view.start)..DateOf(view.end)
\* the sum of one customer's cells over the rows dated on a day of the window
WindowSum(df, cust) ==
    SumOver([d \in WindowDays |-> DaySum(df, cust, d)], WindowDays)

\* C11: for a customer and a period, the total quantity is the sum of the
\* customer's morning and evening quantities over all days of the window and
\* nothing else, and the period charge is the total quantity times the flat
\* price per litre.
C11_TotalAndCharge ==
    (EstimateShown /\ view.cust # AllCustomers) =>
        /\ view.total_l = WindowSum(df_morning, view.cust) + WindowSum(df_evening, view.cust)
        /\ view.generated = Times(view.total_l, view.rate)

\* the ledger rows that carry the name of the selection
LedgerRowsOfSelection ==
    IF IsEmpty(df_bills_existing) \/ ~df_bills_existing.hasCustomer THEN {}
    ELSE {i \in DOMAIN df_bills_existing.rows :
            view.cust = AllCustomers
            \/ norm_name(df_bills_existing.rows[i].name) = norm_name(view.cust)}
\* a column's cell, a missing column or an unreadable cell counting as 0
CellOr0(has, cell) == IF has /\ cell # NaN THEN cell ELSE 0
\* the prior balance one ledger row stands for
PriorOfRow(i) ==
    LET b == df_bills_existing
        r == b.rows[i]
    IN  IF b.hasBalance /\ r.balance # NaN THEN r.balance
        ELSE CellOr0(b.hasBilled, r.billed) - CellOr0(b.hasApplied, r.applied)

\* C12: the prior balance is read per ledger row from the Balance column when
\* the ledger has one (a row whose Balance cell holds no number falling back to
\* the derived value); without a Balance column it is AmountBilled -
\* PaymentsApplied, a missing one of the two counting as 0; with none of the
\* three columns it is 0.
C12_PriorBalance ==
    EstimateShown =>
        /\ view.outstanding =
              SumOver([i \in DOMAIN df_bills_existing.rows |-> PriorOfRow(i)],
                      LedgerRowsOfSelection)
        /\ (~df_bills_existing.hasBalance /\ ~df_bills_existing.hasBilled
              /\ ~df_bills_existing.hasApplied) => view.outstanding = 0
C12_Witness ==
    /\ EstimateShown
    /\ view.cust # AllCustomers
    /\ df_bills_existing.hasBalance /\ df_bills_existing.hasBilled
    /\ df_bills_existing.hasApplied
    /\ \E i \in LedgerRowsOfSelection :
          /\ df_bills_existing.rows[i].balance # NaN
          /\ df_bills_existing.rows[i].balance
                # df_bills_existing.rows[i].billed - df_bills_existing.rows[i].applied
    /\ \E i \in LedgerRowsOfSelection : df_bills_existing.rows[i].balance = NaN
    /\ view.outstanding = 120 * Unit

\* C13: a customer with no row in the prior bills ledger (after name
\* normalization), and any selection when the ledger is empty or has no customer
\* column, gets prior balance 0 without an error, and the due estimate is then
\* period charge - period payments.
C13_NoLedgerRow ==
    (view.status # "idle" /\ LedgerRowsOfSelection = {}) =>
        /\ view.failed # "bills"
        /\ EstimateShown =>
              /\ view.outstanding = 0
              /\ view.due = view.generated - view.payments
C13_Witness ==
    /\ view.status = "shown"
    /\ view.cust # AllCustomers
    /\ LedgerRowsOfSelection = {}
    /\ df_bills_existing.hasCustomer /\ ~df_bills_existing.hasEndDate
    /\ \E i \in DOMAIN df_bills_existing.rows : PriorOfRow(i) > 0
    /\ view.generated > 0
    /\ view.payments > 0
    /\ view.due = view.generated - view.payments

\* the customer set found in the source tables
CustomerSet == customers_from_sheets(df_morning, df_evening, df_payments)
\* what the single-customer computation gives for one customer over the period
SingleCharge(c) ==
    generated_amount(total_delivered_for_customer(df_morning, df_evening, c,
                                                  view.start, view.end), view.rate)
SinglePayments(c) == payments_for_customer_in_period(df_payments, c, view.start, view.end)
\* the payment rows the period's filter keeps
RowsInPeriod ==
    IF IsEmpty(df_payments) \/ ~df_payments.hasAmount THEN {}
    ELSE {i \in DOMAIN df_payments.rows : PayMask(PayDate(i), view.start, view.end)}
\* one customer for each normalized name of the customer set
OnePerName ==
    {c \in CustomerSet :
        c = CHOOSE x \in CustomerSet : norm_name(x) = norm_name(c)}
\* the rows in the period whose name is no customer's of the customer set
RowsOfNobody ==
    {i \in RowsInPeriod :
        \A c \in CustomerSet : Name_norm(df_payments, i) # norm_name(c)}

\* C14 as stated: in "All customers" mode the period charge and the period
\* payments are each the sum over the customer set (delivery columns and payment
\* names) of what the single-customer computation gives.
C14_Original ==
    (EstimateShown /\ view.cust = AllCustomers) =>
        /\ view.generated = SumOver([c \in CustomerSet |-> SingleCharge(c)], CustomerSet)
        /\ view.payments = SumOver([c \in CustomerSet |-> SinglePayments(c)], CustomerSet)
\* C14 as amended: the charge is that sum; the payments are the amounts of
\* every payment row dated in the period, each counted once whatever its name:
\* the single-customer payments of one customer per normalized name, plus the
\* rows that carry no customer's name.
C14_AllMode ==
    (EstimateShown /\ view.cust = AllCustomers) =>
        /\ view.generated = SumOver([c \in CustomerSet |-> SingleCharge(c)], CustomerSet)
        /\ view.payments =
              SumOver([i \in DOMAIN df_payments.rows |-> Amt_num(df_payments, i)],
                      RowsInPeriod)
        /\ view.payments =
              SumOver([c \in CustomerSet |-> SinglePayments(c)], OnePerName)
              + SumOver([i \in DOMAIN df_payments.rows |-> Amt_num(df_payments, i)],
                        RowsOfNobody)
C14_Witness ==
    /\ EstimateShown
    /\ view.cust = AllCustomers
    /\ view.generated = Times(3 * Unit, view.rate)
    /\ \E i \in RowsOfNobody : Amt_num(df_payments, i) > 0
    /\ \E c \in CustomerSet : SinglePayments(c) > 0
    /\ CustomerSet # OnePerName

C16_NoAmountColumn ==
    (view.status # "idle" /\ ~IsEmpty(df_payments) /\ ~df_payments.hasAmount) =>
        /\ EstimateShown
        /\ view.payments = 0
        /\ view.payDetail = {}
        /\ view.due = view.outstanding + view.generated
C16_Witness ==
    /\ view.status # "idle"
    /\ ~IsEmpty(df_payments) /\ ~df_payments.hasAmount
    /\ df_payments.hasName /\ df_payments.hasDate
    /\ \E i \in DOMAIN df_payments.rows :
          RowOfSelection(i) /\ PayMask(PayDate(i), view.start, view.end)
    /\ view.cust # AllCustomers
    /\ view.due = view.outstanding + view.generated
    /\ view.generated > 0
    /\ view.outstanding > 0

\* every cell of a day of the period is BothMissing with no quantity
AllBothMissing ==
    /\ Len(InRangeCells) = PeriodLength
    /\ \A k \in DOMAIN InRangeCells :
          /\ InRangeCells[k].cls = "red-cell"
          /\ InRangeCells[k].m = 0
          /\ InRangeCells[k].e = 0

\* C17: empty source tables never cause an error.  A stage fails only if a
\* table it reads has rows; with both delivery tables empty the quantity and
\* the charge are 0 and the calendar is all BothMissing; an empty delivery table
\* adds nothing to its shift; an empty payment table gives payments 0; an empty
\* ledger gives prior balance 0; with all four empty the page is complete and
\* the due estimate is 0.
C17_EmptyTables ==
    view.status # "idle" =>
        /\ view.failed \in {"total", "calendar"} => ~IsEmpty(df_morning) \/ ~IsEmpty(df_evening)
        /\ view.failed = "bills" => ~IsEmpty(df_bills_existing)
        /\ (IsEmpty(df_morning) /\ IsEmpty(df_evening)) =>
              /\ view.total_l = 0
              /\ view.generated = 0
              /\ view.status = "shown" => AllBothMissing
        /\ (IsEmpty(df_morning) /\ view.status = "shown") =>
              \A k \in DOMAIN view.cells : view.cells[k].m = 0
        /\ (IsEmpty(df_evening) /\ view.status = "shown") =>
              \A k \in DOMAIN view.cells : view.cells[k].e = 0
        /\ (IsEmpty(df_payments) /\ EstimateShown) =>
              view.payments = 0 /\ view.payDetail = {}
        /\ (IsEmpty(df_bills_existing) /\ EstimateShown) => view.outstanding = 0
        /\ (IsEmpty(df_morning) /\ IsEmpty(df_evening) /\ IsEmpty(df_payments)
              /\ IsEmpty(df_bills_existing)) =>
              view.status = "shown" /\ view.due = 0
C17_Witness ==
    /\ view.status = "shown"
    /\ IsEmpty(df_morning) /\ IsEmpty(df_evening) /\ IsEmpty(df_bills_existing)
    /\ ~IsEmpty(df_payments)
    /\ view.cust # AllCustomers
    /\ PeriodLength = MaxDay + 1
    /\ AllBothMissing
    /\ view.payments > 0

\* the selection reads the customer column of a delivery table
ReadsColumn(df) ==
    IF view.cust = AllCustomers THEN CustomerCols(df) # {} ELSE view.cust \in df.cols

\* C18: a non-empty table that lacks an expected column never makes the
\* billing computation fail: a delivery table with the customer's column but no
\* date column adds 0 and the total is computed; a payment table with no name
\* column gives a single customer payments 0; a ledger with matching rows but
\* no EndDate column leaves the page complete up to the calendar.
C18_MissingColumns ==
    view.status # "idle" =>
        /\ view.failed \notin {"total", "bills"}
        /\ \A df \in {df_morning, df_evening} :
              (~IsEmpty(df) /\ ~df.hasDate /\ ReadsColumn(df)) =>
                  view.total_l = total_delivered_for_customer(
                                     IF df = df_morning THEN EmptyFrame ELSE df_morning,
                                     IF df = df_evening THEN EmptyFrame ELSE df_evening,
                                     view.cust, view.start, view.end)
        /\ (~IsEmpty(df_payments) /\ ~df_payments.hasName /\ view.cust # AllCustomers
              /\ EstimateShown) => view.payments = 0

\* what a click with the selection of the page computes at clock value now
Recomputed(now) ==
    IF view.cust = AllCustomers
    THEN BillingAll(view.start, view.end, view.rate, now)
    ELSE BillingSingle(view.cust, view.start, view.end, view.rate, now)

\* C19: computing the billing result again from identical tables, customer,
\* period bounds and price yields an identical result, whenever it is computed:
\* no field depends on the wall clock, on a previous run or on hidden state.
C19_Idempotent ==
    view.status # "idle" => \A now \in Clock : Recomputed(now) = view

\* C20: the billing computation has no side effects: whatever a click
\* computes, and however far it gets, the morning, evening, payment and ledger
\* tables hold the same rows, columns and values after it as before it.
C20_NoSideEffects ==
    [][/\ df_morning' = df_morning
       /\ df_evening' = df_evening
       /\ df_payments' = df_payments
       /\ df_bills_existing' = df_bills_existing]_vars
C20_Witness ==
    /\ view.status = "shown"
    /\ view.cust # AllCustomers
    /\ ~IsEmpty(df_morning) /\ ~IsEmpty(df_evening)
    /\ \E i \in DOMAIN df_morning.rows : RowDate(df_morning, i) # Normalize(RowDate(df_morning, i))
    /\ \E k \in DOMAIN view.cells : view.cells[k].m # 0

\* a delivery table without the rows whose date did not parse
HasDate(r) == r.Date # NaT
DatedOnly(df) == [df EXCEPT !.rows = SelectSeq(df.rows, HasDate)]
\* the days of the selected period
PeriodDays == date_range(view.start, view.end)
\* the period charge of the selection computed from two delivery tables
ChargeFrom(dfm, dfe) ==
    IF view.cust = AllCustomers
    THEN LET cs == CustomerCols(dfm) \cup CustomerCols(dfe)
         IN  SumOver([c \in cs |->
                        generated_amount(total_delivered_for_customer(
                            dfm, dfe, c, view.start, view.end), view.rate)], cs)
    ELSE generated_amount(total_delivered_for_customer(
             dfm, dfe, view.cust, view.start, view.end), view.rate)

\* C21: a delivery row whose date cannot be parsed is dropped without error:
\* every figure of the page is what the tables without those rows give (it is
\* in no day of the calendar and in no period's total, and the rows with a date
\* count as they do without it), and the page fails no more than without them.
C21_UnparseableDateDropped ==
    view.status # "idle" =>
        /\ view.failed # "total"
        /\ (view.failed = "calendar") <=>
              CalendarRaises(DatedOnly(df_morning), DatedOnly(df_evening), view.cust,
                             PeriodDays)
        /\ view.generated = ChargeFrom(DatedOnly(df_morning), DatedOnly(df_evening))
        /\ view.cust # AllCustomers =>
              /\ view.status = "shown"
              /\ view.total_l =
                    total_delivered_for_customer(DatedOnly(df_morning), DatedOnly(df_evening),
                                                 view.cust, view.start, view.end)
              /\ view.day_map =
                    day_map_of(DatedOnly(df_morning), DatedOnly(df_evening), view.cust,
                               PeriodDays)
              /\ view.cust \in df_morning.cols =>
                    \A k \in DOMAIN view.day_map :
                        view.day_map[k].m
                          = DaySum(df_morning, view.cust, view.day_map[k].date)
C21_Witness ==
    /\ view.status = "shown"
    /\ view.cust = CustAB
    /\ PeriodLength = MaxDay + 1
    /\ \E i \in DOMAIN df_morning.rows :
          RowDate(df_morning, i) = NaT /\ df_morning.rows[i].v[CustAB] = Unit + 5
    /\ \E i \in DOMAIN df_morning.rows :
          RowDate(df_morning, i) = Midnight(1) /\ df_morning.rows[i].v[CustAB] = Unit
    /\ view.total_l = 2 * Unit

\* a delivery table with 0 in the cells that hold no number
ZeroFilled(df) ==
    [df EXCEPT !.rows = [i \in DOMAIN df.rows |->
        [df.rows[i] EXCEPT !.v = [c \in DOMAIN df.rows[i].v |->
                                     IF df.rows[i].v[c] = NaN THEN 0 ELSE df.rows[i].v[c]]]]]

\* C22: a delivery quantity that is blank or is no number counts as 0: the
\* period total, the charge and every day's shift quantity are what the tables
\* give with 0 written in those cells, so the other rows count unchanged.
C22_UnparseableQuantityZero ==
    (view.status # "idle" /\ view.cust # AllCustomers) =>
        /\ view.status = "shown"
        /\ view.total_l =
              total_delivered_for_customer(ZeroFilled(df_morning), ZeroFilled(df_evening),
                                           view.cust, view.start, view.end)
        /\ view.generated = ChargeFrom(ZeroFilled(df_morning), ZeroFilled(df_evening))
        /\ view.day_map =
              day_map_of(ZeroFilled(df_morning), ZeroFilled(df_evening), view.cust, PeriodDays)
        /\ view.cust \in df_morning.cols => \A k \in DOMAIN view.day_map :
              view.day_map[k].m =
                SumOver([i \in DOMAIN df_morning.rows |-> df_morning.rows[i].v[view.cust]],
                        {i \in SourceRows(df_morning, view.day_map[k].date) :
                            df_morning.rows[i].v[view.cust] # NaN})
C22_Witness ==
    /\ view.status = "shown"
    /\ view.cust = CustAB
    /\ \E k \in DOMAIN view.day_map :
          /\ view.day_map[k].date = 1
          /\ view.day_map[k].m = Unit
          /\ \E i \in SourceRows(df_morning, 1) : df_morning.rows[i].v[CustAB] = NaN
          /\ \E i \in SourceRows(df_morning, 1) : df_morning.rows[i].v[CustAB] = Unit
    /\ view.total_l = 2 * Unit

\* the sum of every customer column over the rows of one calendar day
DaySumAll(df, day) ==
    SumOver([c \in CustomerCols(df) |-> DaySum(df, c, day)], CustomerCols(df))

\* C23: in "All customers" mode the calendar is produced without error for any
\* table contents, with one colour-coded cell per day of the period; the day's
\* morning (evening) value is the sum over every customer column of the morning
\* (evening) rows of that day, so a day is both-missing iff neither aggregate
\* is positive.
C23_AllCustomersCalendar ==
    (view.cust = AllCustomers /\ view.status # "idle" /\ view.failed \notin {"total", "bills"}) =>
        /\ view.status = "shown"
        /\ Len(view.day_map) = PeriodLength
        /\ Len(InRangeCells) = PeriodLength
        /\ \A k \in DOMAIN view.day_map :
              /\ view.day_map[k].m = DaySumAll(df_morning, view.day_map[k].date)
              /\ view.day_map[k].e = DaySumAll(df_evening, view.day_map[k].date)
        /\ \A k \in DOMAIN InRangeCells :
              /\ InRangeCells[k].cls \in StatusLabels
              /\ (InRangeCells[k].cls = "red-cell")
                    <=> (InRangeCells[k].m <= 0 /\ InRangeCells[k].e <= 0)

\* the quantity the calendar shows: morning + evening over the days of its map
CalendarQuantity ==
    SumOver([k \in DOMAIN view.day_map |-> view.day_map[k].m + view.day_map[k].e],
            DOMAIN view.day_map)

\* C25: for a single customer and any period, the billed quantity equals the
\* quantity the calendar shows: the sum over the period's days of morning +
\* evening in the day map equals total_delivered_for_customer for the same
\* tables and bounds, also for rows with a time of day and rows on the first
\* or last day of the period.
C25_BilledEqualsCalendar ==
    (view.status = "shown" /\ view.cust # AllCustomers) =>
        /\ view.total_l = total_delivered_for_customer(df_morning, df_evening, view.cust,
                                                       view.start, view.end)
        /\ CalendarQuantity = view.total_l

Reversed == view.end < view.start

\* C26: when the period end is earlier than the period start the billing
\* computation does not fail and bills nothing: total quantity, generated
\* amount and period payments are 0, no calendar cell is an in-range day, and
\* the due estimate is the prior balance. The reversed period raises nothing:
\* the only failures left are those of a table that lacks its date column,
\* which fail for every period.
C26_ReversedPeriod ==
    (view.status # "idle" /\ Reversed) =>
        /\ view.failed # "calendar"
        /\ view.failed = "total" => (~df_morning.hasDate \/ ~df_evening.hasDate)
        /\ view.failed = "bills" => ~df_bills_existing.hasEndDate
        /\ EstimateShown =>
              /\ view.total_l = 0
              /\ view.generated = 0
              /\ view.payments = 0
              /\ view.payRows = {}
              /\ view.due = Round2(view.outstanding)
        /\ view.status = "shown" =>
              /\ view.day_map = <<>>
              /\ InRangeCells = <<>>
              /\ view.hasInvoice => view.invoice.Balance = 0
C26_Witness ==
    /\ view.status = "shown"
    /\ Reversed
    /\ view.cust = AllCustomers
    /\ Len(view.cells) = 7
    /\ ~IsEmpty(df_morning) /\ ~IsEmpty(df_payments)
    /\ view.outstanding = 50 * Unit
    /\ view.due = view.outstanding

\* the cells that show one calendar date
CellsOf(day) == {k \in DOMAIN view.cells : view.cells[k].date = day}

\* C27: the grid loop ends and renders whole weeks only: the cells are the
\* consecutive dates from the Monday on or before the period start to the
\* Sunday on or after the period end, their count is a multiple of 7, every
\* date of [start, end] is in exactly one classified cell, and every cell
\* outside [start, end] is muted, with no status colour.
C27_WholeWeeks ==
    view.status = "shown" =>
        LET n == Len(view.cells)
            start_d == DateOf(view.start)
            end_d == DateOf(view.end)
        IN  /\ n % 7 = 0
            /\ \A k \in 1..n : view.cells[k].date = view.cells[1].date + (k - 1)
            /\ start_d <= end_d =>
                  /\ n >= 7
                  /\ Weekday(view.cells[1].date) = 0
                  /\ view.cells[1].date <= start_d /\ start_d < view.cells[1].date + 7
                  /\ Weekday(view.cells[n].date) = 6
                  /\ end_d <= view.cells[n].date /\ view.cells[n].date < end_d + 7
            /\ \A d \in start_d..end_d :
                  /\ Cardinality(CellsOf(d)) = 1
                  /\ \A k \in CellsOf(d) : view.cells[k].cls \in StatusLabels
            /\ \A k \in 1..n :
                  (view.cells[k].date < start_d \/ view.cells[k].date > end_d) =>
                      /\ view.cells[k].cls = "muted"
                      /\ view.cells[k].cls \notin StatusLabels
                      /\ ~view.cells[k].today
C27_Witness ==
    /\ view.status = "shown"
    /\ Len(view.cells) = 14
    /\ Weekday(DateOf(view.start)) = 6
    /\ Weekday(DateOf(view.end)) = 0
    /\ \E k \in DOMAIN view.cells : view.cells[k].cls = "white-cell"
    /\ Cardinality({k \in DOMAIN view.cells : view.cells[k].cls = "muted"}) = 12

\* C28: every generated invoice preview row is a fresh unpaid bill:
\* PaymentsApplied is 0, Balance = AmountBilled = MilkCharge = the period's total
\* litres times RatePerL rounded to the cent, Status is "DUE", DueDate is
\* EndDate + 7 days, the charge is the period charge of the quick due estimate,
\* and the payments received in the period do not reduce the Balance. The litres
\* that are multiplied are the period total; the row prints them to 3 decimals.
C28_FreshUnpaidBill ==
    view.hasInvoice =>
        LET inv == view.invoice
            exact == view.total_l * inv.RatePerL
        IN  /\ inv.PaymentsApplied = 0
            /\ inv.Balance = inv.AmountBilled
            /\ inv.AmountBilled = inv.MilkCharge
            /\ inv.MilkCharge = Round2(exact)
            /\ inv.MilkCharge % Cent = 0
            /\ 2 * (inv.MilkCharge - exact) <= Cent /\ 2 * (exact - inv.MilkCharge) <= Cent
            /\ inv.RatePerL = view.rate
            /\ inv.TotalMilkLitres = Round3(view.total_l)
            /\ inv.Status = "DUE"
            /\ inv.EndDate = DateOf(view.end)
            /\ inv.DueDate = inv.EndDate + 7
            /\ inv.MilkCharge = view.generated
            /\ view.due = Round2(view.outstanding + inv.Balance - view.payments)
C28_Witness ==
    /\ view.hasInvoice
    /\ view.payments > 0
    /\ view.invoice.Balance > view.payments
    /\ view.invoice.TotalMilkLitres # view.total_l
    /\ view.invoice.MilkCharge
         # Round2(view.invoice.TotalMilkLitres * view.invoice.RatePerL)

\* the names of a state: the columns, the name cells and the selection
NamesOfState ==
    df_morning.cols \cup {df_payments.rows[i].name : i \in DOMAIN df_payments.rows}
    \cup {df_bills_existing.rows[i].name : i \in DOMAIN df_bills_existing.rows}
\* the positions where a word of a name starts, and the word that starts there
WordStarts(s) == {i \in DOMAIN s : ~IsSpace(s[i]) /\ (i = 1 \/ IsSpace(s[i - 1]))}
WordAt(s, i) ==
    LET j == CHOOSE j \in i..Len(s) :
                 /\ \A k \in i..j : ~IsSpace(s[k])
                 /\ (j = Len(s) \/ IsSpace(s[j + 1]))
    IN  SubSeq(s, i, j)
NthWord(s, n) ==
    WordAt(s, CHOOSE i \in WordStarts(s) :
                  Cardinality({j \in WordStarts(s) : j < i}) = n - 1)
\* two letters that differ at most in case
SameLetter(a, b) == a = b \/ {a, b} = {"A", "a"} \/ {a, b} = {"B", "b"}
SameWord(u, w) == Len(u) = Len(w) /\ \A i \in DOMAIN u : SameLetter(u[i], w[i])
\* equal after trimming, lower-casing and collapsing whitespace runs: the same
\* words in the same order, up to case; a missing name has no word
SameName(a, b) ==
    LET x == IF a = NaName THEN <<>> ELSE a
        y == IF b = NaName THEN <<>> ELSE b
    IN  /\ Cardinality(WordStarts(x)) = Cardinality(WordStarts(y))
        /\ \A n \in 1..Cardinality(WordStarts(x)) : SameWord(NthWord(x, n), NthWord(y, n))
\* trimmed, lower case, one space between words
Normalized(s) ==
    /\ \A i \in DOMAIN s : s[i] \notin {"A", "B", "\t"}
    /\ s # <<>> => (s[1] # " " /\ s[Len(s)] # " ")
    /\ \A i \in 1..(Len(s) - 1) : ~(s[i] = " " /\ s[i + 1] = " ")

\* C24: norm_name is idempotent and defines the matching relation: two names
\* match iff they are equal after trimming, lower-casing and collapsing every
\* whitespace run to one space; a missing name normalizes to the empty string,
\* which matches no selectable customer. Checked on the names of the tables and
\* on the payment and ledger rows the page matches with the selected customer.
C24_NameMatching ==
    /\ \A x \in NamesOfState :
          /\ norm_name(norm_name(x)) = norm_name(x)
          /\ Normalized(norm_name(x))
          /\ SameName(norm_name(x), x)
          /\ \A y \in NamesOfState : (norm_name(x) = norm_name(y)) <=> SameName(x, y)
    /\ norm_name(NaName) = <<>>
    /\ \A c \in customers_from_sheets(df_morning, df_evening, df_payments) :
          norm_name(c) # norm_name(NaName)
    /\ (EstimateShown /\ view.cust # AllCustomers) =>
          /\ \A i \in DOMAIN df_payments.rows :
                i \in view.payRows <=>
                    /\ SameName(df_payments.rows[i].name, view.cust)
                    /\ i \in PeriodRows(df_payments, view.start, view.end)
          /\ view.outstanding =
                SumOver([i \in DOMAIN df_bills_existing.rows |->
                            df_bills_existing.rows[i].balance],
                        {i \in DOMAIN df_bills_existing.rows :
                            SameName(df_bills_existing.rows[i].name, view.cust)})
C24_Witness ==
    /\ view.status = "shown"
    /\ view.cust = <<"a", " ", "A">>
    /\ df_payments.rows[1].name = <<"A", "\t", " ", "A">>
    /\ view.payRows = {1}
    /\ view.outstanding = 100 * Unit

\* the calendar days of the inclusive range of the last missing-entries request
RangeDays == DateOf(view.start)..DateOf(view.end)
NoRange == view.start = NaT \/ view.end = NaT \/ view.end < view.start

\* C29: find_missing_dates_for_sheet returns, in ascending order and without
\* duplicates, exactly the dates of the inclusive range start..end for which the
\* validator reports no valid data; it returns the empty list when start or end
\* is missing or end < start; a sheet with no date column yields every date of
\* the range; and the loop ends (the list is no longer than the range).
C29_MissingDates ==
    view.status = "missing" =>
        LET res == view.missing
        IN  IF NoRange THEN res = <<>>
            ELSE /\ \A i, j \in DOMAIN res : i < j => res[i] < res[j]
                 /\ {res[i] : i \in DOMAIN res}
                      = {Midnight(d) : d \in {x \in RangeDays :
                            ~validator_fn(view.validator, df_morning, Midnight(x))}}
                 /\ Len(res) <= Cardinality(RangeDays)
                 /\ (~IsEmpty(df_morning) /\ ~df_morning.hasDate) =>
                        res = [k \in 1..Cardinality(RangeDays) |->
                                  Midnight(DateOf(view.start) + k - 1)]
                 /\ view.validator.kind = "distribution" =>
                        \A d \in RangeDays :
                            (\E i \in DOMAIN res : res[i] = Midnight(d))
                              <=> ~\E r \in SourceRows(df_morning, d) :
                                       df_morning.rows[r].v[CustAB] # NaN
                                       /\ df_morning.rows[r].v[CustAB] > 0
C29_Witness ==
    /\ view.status = "missing"
    /\ view.validator.kind = "distribution"
    /\ view.start = 1
    /\ view.end = Midnight(MaxDay) + 1
    /\ view.missing = <<Midnight(0), Midnight(2)>>
    /\ Len(df_morning.rows) = 2

====
